---- MODULE Spec2Model ----
(***************************************************************************)
(* Redis MCP server (src/unnamed/part_000, src/src/redis/src/index.ts):    *)
(* the reconnect strategy handed to the redis client, the startup and      *)
(* shutdown sequence of main()/cleanup(), and the CallTool request handler.*)
(*                                                                         *)
(* The redis client itself (package "redis", node-redis v4) is an external *)
(* dependency.  Its documented contract is modelled where the program      *)
(* calls it:                                                               *)
(*   - reconnectStrategy(retries) is consulted after every failed          *)
(*     connection attempt, retries being the number of retries made since  *)
(*     the last successful connection; a number is the delay before the    *)
(*     next attempt, an Error closes the client for good;                  *)
(*   - connect() resolves when the socket is ready and rejects when the    *)
(*     strategy gives up during the first connection;                      *)
(*   - createClient() is called without disableOfflineQueue and without    *)
(*     commandsQueueMaxLength: a command issued while the socket is        *)
(*     reconnecting is held in the client's offline queue and written once *)
(*     the socket is ready; a command issued on a closed client rejects at *)
(*     once (ClientClosedError); commands in flight are rejected when the  *)
(*     socket drops.                                                       *)
(***************************************************************************)
EXTENDS Integers, Sequences, FiniteSets, TLC

\* ---------------------------------------------------------------- bounds
MaxInv == 2            \* invocations the transport has in flight at once
MaxRetryIndex == 8     \* retry indices probed on the pure strategy function
MaxServe == 1          \* invocations in flight at once while the store is modelled
MaxList == 3           \* longest list the modelled store holds
MaxCount == 2          \* largest value the modelled store's counter reaches
MaxNum == 10           \* largest magnitude of a number converted from its decimal text

\* ------------------------------------------------------ program constants
MAX_RETRIES == 5
MIN_RETRY_DELAY == 1000
MAX_RETRY_DELAY == 30000

ReconnectError == -1   \* the strategy's `new Error('Max retries reached')`
NoExit == -1           \* the process has not called process.exit

Min(a, b) == IF a <= b THEN a ELSE b

\* reconnectStrategy: (retries) => Error | delay
reconnectStrategy_Linear(retries) ==
    IF retries >= MAX_RETRIES
    THEN ReconnectError
    ELSE Min((retries + 1) * MIN_RETRY_DELAY, MAX_RETRY_DELAY)

reconnectStrategy_OffByOne(retries) ==
    IF retries > MAX_RETRIES
    THEN ReconnectError
    ELSE Min((2 ^ retries) * MIN_RETRY_DELAY, MAX_RETRY_DELAY)

reconnectStrategy(retries) ==
    IF retries >= MAX_RETRIES
    THEN ReconnectError
    ELSE Min((2 ^ retries) * MIN_RETRY_DELAY, MAX_RETRY_DELAY)

\* ---------------------------------------------------------------------------
\* The discovery listing
\* ---------------------------------------------------------------------------

\* One property of an inputSchema: its name and the JSON-Schema type it
\* declares.  "strOrArr" is oneOf [string, array of string]; "untyped" is a
\* property whose value states no JSON-Schema keyword at all (a zod object
\* put where a JSON Schema belongs), so that it constrains nothing.
Prop(f, ty) == [f |-> f, ty |-> ty]

\* One entry of the listing; `required` is the empty set where the entry has
\* no `required` member.
Tool(name, properties, required) ==
    [name |-> name, properties |-> properties, required |-> required]

\* The tools array the ListTools handler returns.
ListToolsHandler ==
    << Tool("set", << Prop("key", "string"), Prop("value", "string"),
                      Prop("expireSeconds", "number") >>, {"key", "value"}),
       Tool("get", << Prop("key", "string") >>, {"key"}),
       Tool("delete", << Prop("key", "strOrArr") >>, {"key"}),
       Tool("list", << Prop("pattern", "string") >>, {}),
       Tool("hset", << Prop("key", "string"), Prop("field", "string"),
                       Prop("value", "string") >>, {"key", "field", "value"}),
       Tool("hget", << Prop("key", "string"), Prop("field", "string") >>,
            {"key", "field"}),
       Tool("hgetall", << Prop("key", "string") >>, {"key"}),
       Tool("incr", << Prop("key", "string") >>, {"key"}),
       Tool("expire", << Prop("key", "string"), Prop("seconds", "number") >>,
            {"key", "seconds"}),
       Tool("lpush", << Prop("key", "string"), Prop("value", "strOrArr") >>,
            {"key", "value"}),
       Tool("rpush", << Prop("key", "string"), Prop("value", "strOrArr") >>,
            {"key", "value"}),
       Tool("lpop", << Prop("key", "string") >>, {"key"}),
       Tool("rpop", << Prop("key", "string") >>, {"key"}),
       Tool("lrange", << Prop("key", "string"), Prop("start", "number"),
                         Prop("stop", "number") >>, {"key", "start", "stop"}),
       Tool("zadd", << Prop("key", "untyped"), Prop("score", "untyped"),
                       Prop("member", "untyped") >>, {"key", "score", "member"}),
       Tool("zrange", << Prop("key", "untyped"), Prop("min", "untyped"),
                         Prop("max", "untyped"), Prop("withScores", "untyped") >>,
            {"key", "min", "max"}),
       Tool("zrem", << Prop("key", "untyped"), Prop("member", "untyped") >>,
            {"key", "member"}),
       Tool("zscore", << Prop("key", "untyped"), Prop("member", "untyped") >>,
            {"key", "member"}),
       Tool("zrank", << Prop("key", "untyped"), Prop("member", "untyped") >>,
            {"key", "member"}),
       Tool("publish", << Prop("channel", "string"), Prop("message", "string") >>,
            {"channel", "message"}),
       Tool("pubsub_channels", << Prop("pattern", "string") >>, {}) >>

\* ------------------------------------------------------------ argument values
\* A JSON value of a request: a string, a number, a boolean or an array of
\* strings.  An absent field is a name outside the DOMAIN of the arguments.
Str(s) == [t |-> "str", v |-> s]
Num(n) == [t |-> "num", v |-> n]
Bool(b) == [t |-> "bool", v |-> b]
Arr(a) == [t |-> "arr", v |-> a]

\* The zod schemas: per tool, the declared fields in declaration order.
\* ty: "string" = z.string(), "number" = z.number(), "boolean" = z.boolean(),
\* "strOrArr" = z.string().or(z.array(z.string())); req = FALSE for
\* .optional() and .default().
Fld(f, ty, req) == [f |-> f, ty |-> ty, req |-> req]

SetArgumentsSchema ==
    << Fld("key", "string", TRUE), Fld("value", "string", TRUE),
       Fld("expireSeconds", "number", FALSE) >>
GetArgumentsSchema == << Fld("key", "string", TRUE) >>
DeleteArgumentsSchema == << Fld("key", "strOrArr", TRUE) >>
ListArgumentsSchema == << Fld("pattern", "string", FALSE) >>
HSetArgumentsSchema ==
    << Fld("key", "string", TRUE), Fld("field", "string", TRUE),
       Fld("value", "string", TRUE) >>
HGetArgumentsSchema == << Fld("key", "string", TRUE), Fld("field", "string", TRUE) >>
HGetAllArgumentsSchema == << Fld("key", "string", TRUE) >>
IncrArgumentsSchema == << Fld("key", "string", TRUE) >>
ExpireArgumentsSchema == << Fld("key", "string", TRUE), Fld("seconds", "number", TRUE) >>
LPushArgumentsSchema == << Fld("key", "string", TRUE), Fld("value", "strOrArr", TRUE) >>
RPushArgumentsSchema == << Fld("key", "string", TRUE), Fld("value", "strOrArr", TRUE) >>
LPopArgumentsSchema == << Fld("key", "string", TRUE) >>
RPopArgumentsSchema == << Fld("key", "string", TRUE) >>
LRangeArgumentsSchema ==
    << Fld("key", "string", TRUE), Fld("start", "number", TRUE),
       Fld("stop", "number", TRUE) >>
ZAddArgumentsSchema ==
    << Fld("key", "string", TRUE), Fld("score", "number", TRUE),
       Fld("member", "string", TRUE) >>
ZRangeArgumentsSchema ==
    << Fld("key", "string", TRUE), Fld("min", "number", TRUE),
       Fld("max", "number", TRUE), Fld("withScores", "boolean", FALSE) >>
ZRemArgumentsSchema == << Fld("key", "string", TRUE), Fld("member", "strOrArr", TRUE) >>
ZScoreArgumentsSchema == << Fld("key", "string", TRUE), Fld("member", "string", TRUE) >>
ZRankArgumentsSchema == << Fld("key", "string", TRUE), Fld("member", "string", TRUE) >>
PublishArgumentsSchema ==
    << Fld("channel", "string", TRUE), Fld("message", "string", TRUE) >>
PubSubChannelsArgumentsSchema == << Fld("pattern", "string", FALSE) >>

\* The tool names the CallTool handler's if / else-if chain tests, in order.
HandledTools ==
    << "set", "get", "delete", "list", "hset", "hget", "hgetall", "incr",
       "expire", "lpush", "rpush", "lpop", "rpop", "lrange", "zadd", "zrange",
       "zrem", "zscore", "zrank", "publish", "pubsub_channels" >>

IsHandled(name) == \E k \in DOMAIN HandledTools : HandledTools[k] = name

\* The schema each branch of the handler parses its arguments with.
SchemaOf(name) ==
    CASE name = "set" -> SetArgumentsSchema
      [] name = "get" -> GetArgumentsSchema
      [] name = "delete" -> DeleteArgumentsSchema
      [] name = "list" -> ListArgumentsSchema
      [] name = "hset" -> HSetArgumentsSchema
      [] name = "hget" -> HGetArgumentsSchema
      [] name = "hgetall" -> HGetAllArgumentsSchema
      [] name = "incr" -> IncrArgumentsSchema
      [] name = "expire" -> ExpireArgumentsSchema
      [] name = "lpush" -> LPushArgumentsSchema
      [] name = "rpush" -> RPushArgumentsSchema
      [] name = "lpop" -> LPopArgumentsSchema
      [] name = "rpop" -> RPopArgumentsSchema
      [] name = "lrange" -> LRangeArgumentsSchema
      [] name = "zadd" -> ZAddArgumentsSchema
      [] name = "zrange" -> ZRangeArgumentsSchema
      [] name = "zrem" -> ZRemArgumentsSchema
      [] name = "zscore" -> ZScoreArgumentsSchema
      [] name = "zrank" -> ZRankArgumentsSchema
      [] name = "publish" -> PublishArgumentsSchema
      [] name = "pubsub_channels" -> PubSubChannelsArgumentsSchema

\* zod's type check of one present value against a declared type.
TypeOk_NonEmpty(val, ty) ==
    CASE ty = "string" -> val.t = "str"
      [] ty = "number" -> val.t = "num"
      [] ty = "boolean" -> val.t = "bool"
      [] ty = "strOrArr" -> val.t = "str" \/ (val.t = "arr" /\ val.v # << >>)

TypeOk(val, ty) ==
    CASE ty = "string" -> val.t = "str"
      [] ty = "number" -> val.t = "num"
      [] ty = "boolean" -> val.t = "bool"
      [] ty = "strOrArr" -> val.t \in {"str", "arr"}

\* One field's check by z.object(...).parse: a required field must be
\* present, a present field must have its declared type.
FieldOk(args, fld) ==
    IF fld.f \in DOMAIN args THEN TypeOk(args[fld.f], fld.ty) ELSE ~fld.req

\* Schema.parse(args) returns (TRUE) or throws a ZodError (FALSE).  Keys the
\* schema does not declare are stripped, never rejected.
ParseOk(name, args) ==
    \A k \in DOMAIN SchemaOf(name) : FieldOk(args, SchemaOf(name)[k])

\* ------------------------------------------------------------------ requests
\* A tools/call request: request.params.name and request.params.arguments.
\* The protocol makes `arguments` optional: without it the handler's args is
\* undefined (hasArgs = FALSE).
Req(name, args) == [name |-> name, args |-> args, hasArgs |-> TRUE]
ReqNoArgs(name) == [name |-> name, args |-> << >>, hasArgs |-> FALSE]

\* The tool invocations the transport may deliver while the connection
\* lifecycle is explored.
Requests ==
    << Req("set", [key |-> Str("a"), value |-> Str("1")]),
       Req("set", [key |-> Str("a")]),
       Req("get", [key |-> Num(5)]),
       Req("delete", [key |-> Arr(<< "a", "b" >>)]),
       Req("list", [extra |-> Bool(TRUE)]),
       Req("subscribe", [channel |-> Str("c")]) >>

ReqIds == DOMAIN Requests

\* Further invocations, delivered while the store's contents are explored.
StoreRequests ==
    << ReqNoArgs("list"),
       Req("get", [key |-> Str("a")]),
       Req("get", [key |-> Str("")]),
       Req("delete", [key |-> Str("a")]),
       Req("lpush", [key |-> Str("L"), value |-> Arr(<< "x", "y" >>)]),
       Req("lpush", [key |-> Str("L"), value |-> Str("x")]),
       Req("rpush", [key |-> Str("L"), value |-> Arr(<< "x", "x" >>)]),
       Req("zadd", [key |-> Str("Z"), score |-> Num(5), member |-> Str("m")]),
       Req("zadd", [key |-> Str("Z"), score |-> Num(0), member |-> Str("m")]),
       Req("zscore", [key |-> Str("Z"), member |-> Str("m")]),
       Req("zrem", [key |-> Str("Z"), member |-> Arr(<< "m", "n" >>)]),
       Req("zrem", [key |-> Str("Z"), member |-> Str("m")]),
       Req("expire", [key |-> Str("a"), seconds |-> Num(10)]),
       Req("set", [key |-> Str("a"), value |-> Str("1"), expireSeconds |-> Num(1)]),
       Req("lrange", [key |-> Str("L"), start |-> Num(0), stop |-> Num(-1)]),
       Req("get", [key |-> Str("L")]) >>

\* Invocations of the remaining tools and of the remaining argument shapes:
\* an empty arguments object, expireSeconds 0, two offending fields, empty
\* arrays.
ToolRequests ==
    << Req("list", << >>),                                                 \* 23
       Req("list", [pattern |-> Str("a")]),                                \* 24
       Req("hset", [key |-> Str("H"), field |-> Str("f"), value |-> Str("v")]),
       Req("hget", [key |-> Str("H"), field |-> Str("f")]),                \* 26
       Req("hgetall", [key |-> Str("H")]),                                 \* 27
       Req("incr", [key |-> Str("n")]),                                    \* 28
       Req("lpop", [key |-> Str("L")]),                                    \* 29
       Req("rpop", [key |-> Str("L")]),                                    \* 30
       Req("zrange", [key |-> Str("Z"), min |-> Num(0), max |-> Num(-1)]), \* 31
       Req("zrange", [key |-> Str("Z"), min |-> Num(0), max |-> Num(-1),
                      withScores |-> Bool(TRUE)]),                         \* 32
       Req("zrank", [key |-> Str("Z"), member |-> Str("m")]),              \* 33
       Req("publish", [channel |-> Str("c"), message |-> Str("hello")]),   \* 34
       Req("pubsub_channels", << >>),                                      \* 35
       Req("set", [key |-> Str("a"), value |-> Str("1"), expireSeconds |-> Num(0)]),
       Req("set", [key |-> Num(5)]),                                       \* 37
       Req("delete", [key |-> Arr(<< >>)]),                                \* 38
       Req("lpush", [key |-> Str("L"), value |-> Arr(<< >>)]),             \* 39
       Req("rpush", [key |-> Str("L"), value |-> Arr(<< >>)]),             \* 40
       Req("zrem", [key |-> Str("Z"), member |-> Arr(<< >>)]) >>           \* 41

ServeReqIds == 1 .. (Len(Requests) + Len(StoreRequests))
AllRequests == Requests \o StoreRequests \o ToolRequests
AllReqIds == DOMAIN AllRequests

\* <Tool>ArgumentsSchema.parse(args): z.object rejects an undefined args
\* before it looks at any field.
ParseReq(req) == req.hasArgs /\ ParseOk(req.name, req.args)

\* zod's name for the type of a value, and its message for one field's
\* failure: "Required" for a missing field, "Expected <type>, received
\* <type>" for a value of another type, "Invalid input" when no member of a
\* union accepts the value.
ReceivedType(val) ==
    CASE val.t = "str" -> "string"
      [] val.t = "num" -> "number"
      [] val.t = "bool" -> "boolean"
      [] val.t = "arr" -> "array"

IssueOf(args, fld) ==
    IF fld.f \notin DOMAIN args THEN << fld.f, "Required" >>
    ELSE IF fld.ty = "strOrArr" THEN << fld.f, "Invalid input" >>
    ELSE << fld.f, "Expected " \o fld.ty \o ", received " \o ReceivedType(args[fld.f]) >>

\* error.errors of the ZodError: one issue (path, message) per failing
\* field, in the order the schema declares the fields; the single issue
\* "Required" with the empty path when there is no arguments object.
RECURSIVE FieldIssues(_, _)
FieldIssues(args, sch) ==
    IF sch = << >> THEN << >>
    ELSE (IF FieldOk(args, Head(sch)) THEN << >> ELSE << IssueOf(args, Head(sch)) >>)
         \o FieldIssues(args, Tail(sch))

Issues_LastFirst(req) ==
    IF ~req.hasArgs THEN << << "", "Required" >> >>
    ELSE LET q == FieldIssues(req.args, SchemaOf(req.name))
         IN [k \in DOMAIN q |-> q[Len(q) + 1 - k]]

Issues(req) ==
    IF ~req.hasArgs THEN << << "", "Required" >> >>
    ELSE FieldIssues(req.args, SchemaOf(req.name))

\* errors.map(e => `${e.path.join(".")}: ${e.message}`).join(", ")
RECURSIVE JoinIssues(_)
JoinIssues(q) ==
    IF q = << >> THEN << >>
    ELSE << Head(q)[1], ": ", Head(q)[2] >>
         \o (IF Len(q) > 1 THEN << ", " >> ELSE << >>) \o JoinIssues(Tail(q))

\* The message of the Error the catch block throws for a ZodError.
InvalidArgumentsMessage(req) == << "Invalid arguments: " >> \o JoinIssues(Issues(req))

\* ------------------------------------------------------ commands to the store
\* The client sends every argument as text: a number goes out as its decimal
\* text, a string-or-array argument as its elements, in order.
Items_Reversed(val) ==
    IF val.t = "arr"
    THEN [k \in 1 .. Len(val.v) |-> val.v[Len(val.v) + 1 - k]]
    ELSE << val.v >>

Items(val) == IF val.t = "arr" THEN val.v ELSE << val.v >>

Cmd(op, args) == [op |-> op, args |-> args]

HasArg(req, f) == f \in DOMAIN req.args
ArgV(req, f) == req.args[f].v

\* `if (expireSeconds)`, `if (withScores)`, `pattern || "*"`: JavaScript
\* truthiness of an optional argument.
Truthy_Present(req, f) == HasArg(req, f)

Truthy(req, f) ==
    /\ HasArg(req, f)
    /\ CASE req.args[f].t = "num" -> req.args[f].v # 0
         [] req.args[f].t = "str" -> req.args[f].v # ""
         [] req.args[f].t = "bool" -> req.args[f].v
         [] OTHER -> TRUE

\* The redisClient call of each branch of the handler, as the command the
\* client writes for it.
Command(req) ==
    CASE req.name = "set" ->
            IF Truthy(req, "expireSeconds")
            THEN Cmd("SETEX", << ArgV(req, "key"), ToString(ArgV(req, "expireSeconds")),
                                 ArgV(req, "value") >>)
            ELSE Cmd("SET", << ArgV(req, "key"), ArgV(req, "value") >>)
      [] req.name = "get" -> Cmd("GET", << ArgV(req, "key") >>)
      [] req.name = "delete" -> Cmd("DEL", Items(req.args["key"]))
      [] req.name = "list" ->
            Cmd("KEYS", << IF HasArg(req, "pattern") THEN ArgV(req, "pattern") ELSE "*" >>)
      [] req.name = "hset" ->
            Cmd("HSET", << ArgV(req, "key"), ArgV(req, "field"), ArgV(req, "value") >>)
      [] req.name = "hget" -> Cmd("HGET", << ArgV(req, "key"), ArgV(req, "field") >>)
      [] req.name = "hgetall" -> Cmd("HGETALL", << ArgV(req, "key") >>)
      [] req.name = "incr" -> Cmd("INCR", << ArgV(req, "key") >>)
      [] req.name = "expire" ->
            Cmd("EXPIRE", << ArgV(req, "key"), ToString(ArgV(req, "seconds")) >>)
      [] req.name = "lpush" -> Cmd("LPUSH", << ArgV(req, "key") >> \o Items(req.args["value"]))
      [] req.name = "rpush" -> Cmd("RPUSH", << ArgV(req, "key") >> \o Items(req.args["value"]))
      [] req.name = "lpop" -> Cmd("LPOP", << ArgV(req, "key") >>)
      [] req.name = "rpop" -> Cmd("RPOP", << ArgV(req, "key") >>)
      [] req.name = "lrange" ->
            Cmd("LRANGE", << ArgV(req, "key"), ToString(ArgV(req, "start")),
                             ToString(ArgV(req, "stop")) >>)
      [] req.name = "zadd" ->
            Cmd("ZADD", << ArgV(req, "key"), ToString(ArgV(req, "score")),
                           ArgV(req, "member") >>)
      [] req.name = "zrange" ->
            Cmd("ZRANGE", << ArgV(req, "key"), ToString(ArgV(req, "min")),
                             ToString(ArgV(req, "max")) >>
                          \o (IF Truthy(req, "withScores") THEN << "WITHSCORES" >> ELSE << >>))
      [] req.name = "zrem" -> Cmd("ZREM", << ArgV(req, "key") >> \o Items(req.args["member"]))
      [] req.name = "zscore" -> Cmd("ZSCORE", << ArgV(req, "key"), ArgV(req, "member") >>)
      [] req.name = "zrank" -> Cmd("ZRANK", << ArgV(req, "key"), ArgV(req, "member") >>)
      [] req.name = "publish" ->
            Cmd("PUBLISH", << ArgV(req, "channel"), ArgV(req, "message") >>)
      [] req.name = "pubsub_channels" ->
            Cmd("PUBSUB", << "CHANNELS",
                             IF Truthy(req, "pattern") THEN ArgV(req, "pattern") ELSE "*" >>)

\* ----------------------------------------------------------------- the store
\* The store the client talks to, as far as the requests above reach it:
\* strings with an optional time to live, lists and sorted sets.
Keys == {"a", "b", "L", "Z", "", "H", "n"}
KeyOrder == << "", "H", "L", "Z", "a", "b", "n" >>

Nil == [t |-> "nil", v |-> << >>]
StrV(x) == [t |-> "string", v |-> x]
ListV(l) == [t |-> "list", v |-> l]
ZSetV(z) == [t |-> "zset", v |-> z]
HashV(h) == [t |-> "hash", v |-> h]

EmptyStore == [kv |-> [k \in Keys |-> Nil], ttl |-> {}]

\* Replies of the store.
RNil == [t |-> "nil", v |-> 0]
ROk == [t |-> "ok", v |-> "OK"]
RInt(n) == [t |-> "int", v |-> n]
RStr(x) == [t |-> "str", v |-> x]
RArr(a) == [t |-> "arr", v |-> a]
RBool(b) == [t |-> "bool", v |-> b]
RNum(n) == [t |-> "num", v |-> n]
RErr(m) == [t |-> "err", v |-> m]
RMap(m) == [t |-> "map", v |-> m]
RPairs(q) == [t |-> "pairs", v |-> q]

Out(st, reply) == [st |-> st, reply |-> reply]
WrongType(st) ==
    Out(st, RErr("WRONGTYPE Operation against a key holding the wrong kind of value"))

\* The number a decimal text stands for.
NumOf_Negated(x) == 0 - (CHOOSE n \in (0 - MaxNum) .. MaxNum : ToString(n) = x)

NumOf(x) == CHOOSE n \in (0 - MaxNum) .. MaxNum : ToString(n) = x

Reverse_Kept(q) == q

Reverse(q) == [k \in 1 .. Len(q) |-> q[Len(q) + 1 - k]]
Range(q) == {q[k] : k \in DOMAIN q}
Tail2(q) == SubSeq(q, 2, Len(q))
RECURSIVE SelectKeys(_, _)
SelectKeys(q, st) ==
    IF q = << >> THEN << >>
    ELSE (IF st.kv[Head(q)].t # "nil" THEN << Head(q) >> ELSE << >>)
         \o SelectKeys(Tail(q), st)

IsKind(st, k, t) == st.kv[k].t \in {"nil", t}
SetKey_Ignored(st, k, val) == st

SetKey(st, k, val) == [st EXCEPT !.kv[k] = val, !.ttl = @ \ {k}]
DropKeys(st, ks) ==
    [kv |-> [k \in Keys |-> IF k \in ks THEN Nil ELSE st.kv[k]], ttl |-> st.ttl \ ks]
ListOf(st, k) == IF st.kv[k].t = "list" THEN st.kv[k].v ELSE << >>
ZSetOf(st, k) == IF st.kv[k].t = "zset" THEN st.kv[k].v ELSE {}

HashOf(st, k) == IF st.kv[k].t = "hash" THEN st.kv[k].v ELSE << >>

\* A command sent with too few arguments (an empty array forwarded).
WrongArity(st, op) == Out(st, RErr("ERR wrong number of arguments for '" \o op \o "' command"))

\* The text is the decimal text of a number the model represents.
IsNumeral(x) == \E n \in (0 - MaxNum) .. MaxNum : ToString(n) = x

\* A hash's entries with `field` set to `value`: replaced in place, or added
\* at the end.
HashPut(h, field, value) ==
    IF \E j \in DOMAIN h : h[j][1] = field
    THEN [j \in DOMAIN h |-> IF h[j][1] = field THEN << field, value >> ELSE h[j]]
    ELSE Append(h, << field, value >>)

\* A sorted set's entries by ascending score (members of equal score in an
\* order fixed for the set).
ZSorted(z) ==
    CHOOSE q \in [1 .. Cardinality(z) -> z] :
        /\ \A i, j \in DOMAIN q : i # j => q[i] # q[j]
        /\ \A i, j \in DOMAIN q : i < j => NumOf(q[i][2]) <= NumOf(q[j][2])

\* LPUSH and RPUSH reply with the length of the list after the push.
PushReply_ItemCount(st, k, items) == RInt(Len(items))

PushReply(st, k, items) == RInt(Len(ListOf(st, k)) + Len(items))

\* LRANGE's index arithmetic: negative indices count from the tail.
LRangeOf(l, start, stop) ==
    LET n == Len(l)
        lo == IF start < 0 THEN (IF n + start < 0 THEN 0 ELSE n + start) ELSE start
        hi == IF stop < 0 THEN n + stop ELSE (IF stop > n - 1 THEN n - 1 ELSE stop)
    IN IF lo > hi \/ lo >= n THEN << >> ELSE SubSeq(l, lo + 1, hi + 1)

\* The store executes one command: its new contents and its reply.
Exec(st, c) ==
    LET k == c.args[1] IN
    CASE c.op = "SET" -> Out(SetKey(st, k, StrV(c.args[2])), ROk)
      [] c.op = "SETEX" ->
            IF NumOf(c.args[2]) <= 0
            THEN Out(st, RErr("ERR invalid expire time in 'setex' command"))
            ELSE Out([SetKey(st, k, StrV(c.args[3])) EXCEPT !.ttl = @ \cup {k}], ROk)
      [] c.op = "GET" ->
            IF st.kv[k].t = "nil" THEN Out(st, RNil)
            ELSE IF st.kv[k].t = "string" THEN Out(st, RStr(st.kv[k].v))
            ELSE WrongType(st)
      [] c.op = "DEL" ->
            IF c.args = << >> THEN WrongArity(st, "del")
            ELSE Out(DropKeys(st, Range(c.args)),
                     RInt(Cardinality({x \in Range(c.args) : st.kv[x].t # "nil"})))
      [] c.op = "HSET" ->
            IF ~IsKind(st, k, "hash") THEN WrongType(st)
            ELSE Out([st EXCEPT !.kv[k] = HashV(HashPut(HashOf(st, k), c.args[2], c.args[3]))],
                     RInt(IF \E j \in DOMAIN HashOf(st, k) : HashOf(st, k)[j][1] = c.args[2]
                          THEN 0 ELSE 1))
      [] c.op = "HGET" ->
            IF ~IsKind(st, k, "hash") THEN WrongType(st)
            ELSE IF \E j \in DOMAIN HashOf(st, k) : HashOf(st, k)[j][1] = c.args[2]
                 THEN Out(st, RStr(HashOf(st, k)[CHOOSE j \in DOMAIN HashOf(st, k) :
                                                    HashOf(st, k)[j][1] = c.args[2]][2]))
                 ELSE Out(st, RNil)
      [] c.op = "HGETALL" ->
            IF ~IsKind(st, k, "hash") THEN WrongType(st)
            ELSE Out(st, RMap(HashOf(st, k)))
      [] c.op = "INCR" ->
            IF st.kv[k].t = "nil" THEN Out([st EXCEPT !.kv[k] = StrV("1")], RInt(1))
            ELSE IF st.kv[k].t # "string" THEN WrongType(st)
            ELSE IF ~IsNumeral(st.kv[k].v)
                 THEN Out(st, RErr("ERR value is not an integer or out of range"))
            ELSE Out([st EXCEPT !.kv[k] = StrV(ToString(NumOf(st.kv[k].v) + 1))],
                     RInt(NumOf(st.kv[k].v) + 1))
      [] c.op \in {"LPOP", "RPOP"} ->
            IF ~IsKind(st, k, "list") THEN WrongType(st)
            ELSE IF ListOf(st, k) = << >> THEN Out(st, RNil)
            ELSE LET l == ListOf(st, k)
                     rest == IF c.op = "LPOP" THEN Tail(l) ELSE SubSeq(l, 1, Len(l) - 1)
                 IN Out([st EXCEPT !.kv[k] = IF rest = << >> THEN Nil ELSE ListV(rest)],
                        RStr(IF c.op = "LPOP" THEN Head(l) ELSE l[Len(l)]))
      [] c.op = "ZRANGE" ->
            IF ~IsKind(st, k, "zset") THEN WrongType(st)
            ELSE LET q == LRangeOf(ZSorted(ZSetOf(st, k)), NumOf(c.args[2]), NumOf(c.args[3]))
                 IN IF Len(c.args) > 3
                    THEN Out(st, RPairs(q))
                    ELSE Out(st, RArr([j \in DOMAIN q |-> q[j][1]]))
      [] c.op = "ZRANK" ->
            IF ~IsKind(st, k, "zset") THEN WrongType(st)
            ELSE IF \E e \in ZSetOf(st, k) : e[1] = c.args[2]
                 THEN Out(st, RInt((CHOOSE j \in DOMAIN ZSorted(ZSetOf(st, k)) :
                                       ZSorted(ZSetOf(st, k))[j][1] = c.args[2]) - 1))
                 ELSE Out(st, RNil)
      [] c.op = "PUBLISH" -> Out(st, RInt(0))
      [] c.op = "PUBSUB" -> Out(st, RArr(<< >>))
      [] c.op = "KEYS" ->
            Out(st, RArr(IF k = "*" THEN SelectKeys(KeyOrder, st)
                         ELSE IF k \in Keys /\ st.kv[k].t # "nil" THEN << k >> ELSE << >>))
      [] c.op = "EXPIRE" ->
            IF st.kv[k].t = "nil" THEN Out(st, RInt(0))
            ELSE IF NumOf(c.args[2]) <= 0 THEN Out(DropKeys(st, {k}), RInt(1))
            ELSE Out([st EXCEPT !.ttl = @ \cup {k}], RInt(1))
      [] c.op = "LPUSH" ->
            IF Len(c.args) < 2 THEN WrongArity(st, "lpush")
            ELSE IF ~IsKind(st, k, "list") THEN WrongType(st)
            ELSE Out([st EXCEPT !.kv[k] = ListV(Reverse(Tail2(c.args)) \o ListOf(st, k))],
                     PushReply(st, k, Tail2(c.args)))
      [] c.op = "RPUSH" ->
            IF Len(c.args) < 2 THEN WrongArity(st, "rpush")
            ELSE IF ~IsKind(st, k, "list") THEN WrongType(st)
            ELSE Out([st EXCEPT !.kv[k] = ListV(ListOf(st, k) \o Tail2(c.args))],
                     PushReply(st, k, Tail2(c.args)))
      [] c.op = "LRANGE" ->
            IF ~IsKind(st, k, "list") THEN WrongType(st)
            ELSE Out(st, RArr(LRangeOf(ListOf(st, k), NumOf(c.args[2]), NumOf(c.args[3]))))
      [] c.op = "ZADD" ->
            IF ~IsKind(st, k, "zset") THEN WrongType(st)
            ELSE Out([st EXCEPT !.kv[k] =
                        ZSetV({e \in ZSetOf(st, k) : e[1] # c.args[3]}
                              \cup {<< c.args[3], c.args[2] >>})],
                     RInt(IF \E e \in ZSetOf(st, k) : e[1] = c.args[3] THEN 0 ELSE 1))
      [] c.op = "ZREM" ->
            IF Len(c.args) < 2 THEN WrongArity(st, "zrem")
            ELSE IF ~IsKind(st, k, "zset") THEN WrongType(st)
            ELSE LET left == {e \in ZSetOf(st, k) : e[1] \notin Range(Tail2(c.args))} IN
                 Out([st EXCEPT !.kv[k] = IF left = {} THEN Nil ELSE ZSetV(left)],
                     RInt(Cardinality(ZSetOf(st, k)) - Cardinality(left)))
      [] c.op = "ZSCORE" ->
            IF ~IsKind(st, k, "zset") THEN WrongType(st)
            ELSE IF \E e \in ZSetOf(st, k) : e[1] = c.args[2]
                 THEN Out(st, RStr((CHOOSE e \in ZSetOf(st, k) : e[1] = c.args[2])[2]))
                 ELSE Out(st, RNil)

\* The client's conversion of the store's reply into the value the awaited
\* call resolves to: expire resolves to a boolean, zScore to a number.
ClientReply_ExpireTruthy(op, raw) ==
    CASE op = "EXPIRE" /\ raw.t = "int" -> RBool(TRUE)
      [] op = "ZSCORE" /\ raw.t = "str" -> RNum(NumOf(raw.v))
      [] op = "ZRANGE" /\ raw.t = "pairs" ->
            RPairs([j \in DOMAIN raw.v |-> << raw.v[j][1], NumOf(raw.v[j][2]) >>])
      [] OTHER -> raw

ClientReply(op, raw) ==
    CASE op = "EXPIRE" /\ raw.t = "int" -> RBool(raw.v = 1)
      [] op = "ZSCORE" /\ raw.t = "str" -> RNum(NumOf(raw.v))
      [] op = "ZRANGE" /\ raw.t = "pairs" ->
            RPairs([j \in DOMAIN raw.v |-> << raw.v[j][1], NumOf(raw.v[j][2]) >>])
      [] OTHER -> raw

\* ------------------------------------------------------------ response texts
\* A text is the sequence of the pieces its template literal concatenates.
\* The messages the source writes in Chinese (lpush .. pubsub_channels) are
\* given here by their English reading; the pieces taken from the arguments
\* and from the reply are the source's.
RECURSIVE JoinNL(_)
JoinNL(q) ==
    IF Len(q) <= 1 THEN q ELSE << Head(q), "\n" >> \o JoinNL(Tail(q))

\* `${field}: ${value}` per entry, joined by newlines.
RECURSIVE JoinPairs(_)
JoinPairs(q) ==
    IF q = << >> THEN << >>
    ELSE << Head(q)[1], ": ", Head(q)[2] >>
         \o (IF Len(q) > 1 THEN << "\n" >> ELSE << >>) \o JoinPairs(Tail(q))

\* `${x}` of a reply value.
Shown(r) == IF r.t \in {"int", "num"} THEN ToString(r.v) ELSE r.v

\* The text each branch of the handler returns for the value its awaited
\* call resolved to.
Render(req, r) ==
    CASE req.name = "set" -> << "Successfully set key: ", ArgV(req, "key") >>
      [] req.name = "get" ->
            IF r.t = "nil" THEN << "Key not found: ", ArgV(req, "key") >> ELSE << r.v >>
      [] req.name = "delete" ->
            IF req.args["key"].t = "arr"
            THEN << "Successfully deleted ", ToString(Len(ArgV(req, "key"))), " keys" >>
            ELSE << "Successfully deleted key: ", ArgV(req, "key") >>
      [] req.name = "list" ->
            IF Len(r.v) > 0 THEN << "Found keys:\n" >> \o JoinNL(r.v)
            ELSE << "No keys found matching pattern" >>
      [] req.name = "hset" ->
            << "Successfully set hash field ", ArgV(req, "field"), " in key: ",
               ArgV(req, "key") >>
      [] req.name = "hget" ->
            IF r.t = "nil"
            THEN << "Field ", ArgV(req, "field"), " not found in hash key: ", ArgV(req, "key") >>
            ELSE << r.v >>
      [] req.name = "hgetall" ->
            IF Len(r.v) = 0 THEN << "Hash key not found or empty: ", ArgV(req, "key") >>
            ELSE JoinPairs(r.v)
      [] req.name = "incr" ->
            << "Incremented key: ", ArgV(req, "key"), ", new value: ", Shown(r) >>
      [] req.name = "expire" ->
            IF r.v
            THEN << "Successfully set expiration of ", ToString(ArgV(req, "seconds")),
                    " seconds for key: ", ArgV(req, "key") >>
            ELSE << "Failed to set expiration: key ", ArgV(req, "key"), " does not exist" >>
      [] req.name = "lpush" -> << "Added to the head of the list, new length: ", Shown(r) >>
      [] req.name = "rpush" -> << "Added to the tail of the list, new length: ", Shown(r) >>
      [] req.name \in {"lpop", "rpop"} ->
            IF r.t = "nil" THEN << "List is empty or does not exist: ", ArgV(req, "key") >>
            ELSE << r.v >>
      [] req.name = "lrange" ->
            IF Len(r.v) = 0
            THEN << "No elements in the range or the list does not exist: ", ArgV(req, "key") >>
            ELSE JoinNL(r.v)
      [] req.name = "zadd" -> << "Added to the sorted set, members affected: ", Shown(r) >>
      [] req.name = "zrange" ->
            IF Len(r.v) = 0
            THEN << "No members in the range or the sorted set does not exist: ",
                    ArgV(req, "key") >>
            ELSE IF Truthy(req, "withScores")
                 THEN JoinPairs([j \in DOMAIN r.v |-> << r.v[j][1], ToString(r.v[j][2]) >>])
                 ELSE JoinNL(r.v)
      [] req.name = "zrem" ->
            << "Removed ", Shown(r), " members from the sorted set: ", ArgV(req, "key") >>
      [] req.name \in {"zscore", "zrank"} ->
            IF r.t = "nil"
            THEN << "Member does not exist in the sorted set: ", ArgV(req, "key") >>
            ELSE << (IF req.name = "zscore" THEN "Score: " ELSE "Rank: "), Shown(r) >>
      [] req.name = "publish" ->
            << "Message published to channel ", ArgV(req, "channel"), ", received by ",
               Shown(r), " subscribers" >>
      [] req.name = "pubsub_channels" ->
            IF Len(r.v) = 0
            THEN << "No active channels found" >>
                 \o (IF Truthy(req, "pattern")
                     THEN << " matching pattern ", ArgV(req, "pattern") >> ELSE << >>)
            ELSE << "Active channels:\n" >> \o JoinNL(r.v)

\* --------------------------------------------------------------------- state
VARIABLES
    mainPc,        \* main(): "start", "awaitConnect" (await redisClient.connect()),
                   \*         "serving" (transport attached), "cleanup" (catch block)
    exitCode,      \* argument of process.exit, NoExit while the process runs
    cause,         \* what called cleanup() first: "none", "signal", "startup"
    cleanupPc,     \* cleanup(): "idle", "quitting" (await redisClient.quit()), "done"
    conn,          \* ConnectionState of the client
    phase,         \* while Connecting: "attempting" a socket or "waiting" for the delay
    socketOpen,    \* the client's isOpen: connect() called and neither closed nor given up
    retries,       \* retries since the last successful connection
    attempts,      \* connection attempts made in the current run of failures
    failures,      \* failed connection attempts in the current run
    stratLog,      \* calls of reconnectStrategy in the current run: <<[i, d]>>
    everConnected, \* the store connection has been Connected at least once
    inv,           \* the invocations in flight, one handler activation per slot
    store,         \* the contents of the store
    listed,        \* the tools of the last discovery response, << >> before the first
    listedAt       \* the connection state in which that response was given

vars ==
    << mainPc, exitCode, cause, cleanupPc, conn, phase, socketOpen, retries,
       attempts, failures, stratLog, everConnected, inv, store, listed, listedAt >>

connVars == << conn, phase, socketOpen, retries, attempts, failures, stratLog, everConnected >>
procVars == << mainPc, exitCode, cause, cleanupPc >>

Slots == 1 .. MaxInv

\* A slot no handler activation occupies.
FreeSlot ==
    [pc |-> "free", req |-> 0, at |-> "none", sent |-> 0,
     results |-> 0, errors |-> 0, err |-> "none",
     cmd |-> Cmd("NONE", << >>), text |-> << >>, content |-> << >>]

Running == exitCode = NoExit

Init ==
    /\ mainPc = "start"
    /\ exitCode = NoExit
    /\ cause = "none"
    /\ cleanupPc = "idle"
    /\ conn = "Disconnected"
    /\ phase = "idle"
    /\ socketOpen = FALSE
    /\ retries = 0
    /\ attempts = 0
    /\ failures = 0
    /\ stratLog = << >>
    /\ everConnected = FALSE
    /\ inv = [i \in Slots |-> FreeSlot]
    /\ store = EmptyStore
    /\ listed = << >>
    /\ listedAt = "none"

\* ------------------------------------------------------------ CallTool handler
\* The handler throws: the request ends with one propagated error.
Throw(slot, e) == [slot EXCEPT !.pc = "done", !.errors = @ + 1, !.err = e]

\* The catch block: a ZodError becomes Error("Invalid arguments: ..."), any
\* other error is rethrown as it is.
Catch_WrapAll(e) == "InvalidArguments"

Catch(e) == IF e = "ZodError" THEN "InvalidArguments" ELSE e

\* The handler returns { content: [{ type: "text", text }] }.
Return_FallThrough(slot, text) == [slot EXCEPT !.pc = "done"]

Return_NoContent(slot, text) ==
    [slot EXCEPT !.pc = "done", !.results = @ + 1, !.text = text]

Return(slot, text) ==
    [slot EXCEPT !.pc = "done", !.results = @ + 1, !.text = text,
                 !.content = << [type |-> "text", text |-> text] >>]

\* await redisClient.<command>(...): rejected at once on a closed client,
\* written to the socket when it is ready, held in the offline queue while
\* the socket is reconnecting.
sendCommand_IgnoreClosed(slot) ==
    IF conn = "Connected"
    THEN [slot EXCEPT !.pc = "awaiting", !.sent = @ + 1]
    ELSE [slot EXCEPT !.pc = "queued"]

sendCommand(slot) ==
    IF ~socketOpen
    THEN Throw(slot, "ClientClosedError")
    ELSE IF conn = "Connected"
         THEN [slot EXCEPT !.pc = "awaiting", !.sent = @ + 1]
         ELSE [slot EXCEPT !.pc = "queued"]

\* The handler up to its first await: the if / else-if chain on the name,
\* Schema.parse(args) first in every branch, then the store call; the catch
\* block turns a ZodError into Error("Invalid arguments: ...").
CallToolHandler_SendBeforeParse(slot, r) ==
    IF IsHandled(AllRequests[r].name)
    THEN IF ParseReq(AllRequests[r])
         THEN sendCommand([slot EXCEPT !.cmd = Command(AllRequests[r])])
         ELSE Throw([sendCommand(slot) EXCEPT !.errors = 0,
                                              !.text = InvalidArgumentsMessage(AllRequests[r])],
                    Catch("ZodError"))
    ELSE Throw(slot, Catch("UnknownTool"))

CallToolHandler_DefaultBranch(slot, r) ==
    IF IsHandled(AllRequests[r].name)
    THEN IF ParseReq(AllRequests[r])
         THEN sendCommand([slot EXCEPT !.cmd = Command(AllRequests[r])])
         ELSE Throw([slot EXCEPT !.text = InvalidArgumentsMessage(AllRequests[r])],
                    Catch("ZodError"))
    ELSE sendCommand(slot)

CallToolHandler(slot, r) ==
    IF IsHandled(AllRequests[r].name)
    THEN IF ParseReq(AllRequests[r])
         THEN sendCommand([slot EXCEPT !.cmd = Command(AllRequests[r])])
         ELSE Throw([slot EXCEPT !.text = InvalidArgumentsMessage(AllRequests[r])],
                    Catch("ZodError"))
    ELSE Throw(slot, Catch("UnknownTool"))

\* The transport delivers a tools/call request: the handler runs to its
\* first await or to its end.
CallTool(i, r) ==
    /\ Running
    /\ mainPc = "serving"
    /\ inv[i].pc = "free"
    /\ \A j \in Slots : j < i => inv[j].pc # "free"
    /\ inv' = [inv EXCEPT ![i] =
                 CallToolHandler([FreeSlot EXCEPT !.req = r, !.at = conn], r)]
    /\ UNCHANGED << connVars, procVars, store, listed, listedAt >>

\* The store's contents stay within the model's bounds.
StoreFits(st) ==
    \A k \in Keys :
        /\ st.kv[k].t = "list" => Len(st.kv[k].v) <= MaxList
        /\ (st.kv[k].t = "string" /\ IsNumeral(st.kv[k].v)) => NumOf(st.kv[k].v) <= MaxCount

\* What the handler of a slot does once its awaited call settles on the
\* reply `raw` of the store: an error reply rejects the call and goes through
\* the catch block, any other reply is rendered by the branch.
Settle_PlainOk(slot, raw) ==
    IF raw.t = "err"
    THEN Throw(slot, Catch(raw.v))
    ELSE Return(slot, << "OK" >>)

Settle_EmptyIsError(slot, raw) ==
    IF raw.t = "err" \/ (raw.t \in {"arr", "map", "pairs"} /\ Len(raw.v) = 0)
    THEN Throw(slot, Catch(IF raw.t = "err" THEN raw.v ELSE "NoResults"))
    ELSE Return(slot, Render(AllRequests[slot.req], ClientReply(slot.cmd.op, raw)))

Settle_NilIsError(slot, raw) ==
    IF raw.t \in {"err", "nil"}
    THEN Throw(slot, Catch(IF raw.t = "err" THEN raw.v ELSE "NotFound"))
    ELSE Return(slot, Render(AllRequests[slot.req], ClientReply(slot.cmd.op, raw)))

Settle(slot, raw) ==
    IF raw.t = "err"
    THEN Throw(slot, Catch(raw.v))
    ELSE Return(slot, Render(AllRequests[slot.req], ClientReply(slot.cmd.op, raw)))

\* The store answers the command of slot i.  It executes the command (ok),
\* or refuses it for a reason of its own (~ok: out of memory, read-only
\* replica, ...), leaving its contents unchanged.
StoreReply(i, ok) ==
    /\ Running
    /\ conn = "Connected"
    /\ inv[i].pc = "awaiting"
    /\ IF ok /\ inv[i].cmd.op # "NONE"
       THEN /\ StoreFits(Exec(store, inv[i].cmd).st)
            /\ store' = Exec(store, inv[i].cmd).st
            /\ inv' = [inv EXCEPT ![i] = Settle(inv[i], Exec(store, inv[i].cmd).reply)]
       ELSE /\ store' = store
            /\ inv' = [inv EXCEPT ![i] = Settle(inv[i], RErr("UpstreamError"))]
    /\ UNCHANGED << connVars, procVars, listed, listedAt >>

\* The transport delivers a tools/list request: the handler answers with the
\* tools array, awaiting nothing.
ListTools_OnlyConnected ==
    /\ Running
    /\ mainPc = "serving"
    /\ listed' = IF conn = "Connected" THEN ListToolsHandler ELSE << >>
    /\ listedAt' = conn
    /\ UNCHANGED << connVars, procVars, inv, store >>

ListTools ==
    /\ Running
    /\ mainPc = "serving"
    /\ listed' = ListToolsHandler
    /\ listedAt' = conn
    /\ UNCHANGED << connVars, procVars, inv, store >>

\* A key's time to live runs out: the store drops the key.
ExpireKey(k) ==
    /\ Running
    /\ k \in store.ttl
    /\ store' = DropKeys(store, {k})
    /\ UNCHANGED << connVars, procVars, inv, listed, listedAt >>

\* The response (result or error) has been written to the transport.
Respond(i) ==
    /\ Running
    /\ inv[i].pc = "done"
    /\ inv' = [inv EXCEPT ![i] = FreeSlot]
    /\ UNCHANGED << connVars, procVars, store, listed, listedAt >>

\* ------------------------------------------------------------------- cleanup
\* cleanup(): await redisClient.quit() inside try/catch, then process.exit(1).
\* quit() on a client that is not open throws ClientClosedError at once, which
\* the catch swallows; otherwise cleanup waits for quit() to settle.
Cleanup_QuitThrows(by) ==
    /\ cause' = IF cause = "none" THEN by ELSE cause
    /\ IF socketOpen
       THEN /\ cleanupPc' = "quitting"
            /\ socketOpen' = FALSE
            /\ exitCode' = exitCode
       ELSE /\ cleanupPc' = "failed"
            /\ socketOpen' = socketOpen
            /\ exitCode' = exitCode

Cleanup(by) ==
    /\ cause' = IF cause = "none" THEN by ELSE cause
    /\ IF socketOpen
       THEN /\ cleanupPc' = "quitting"
            /\ socketOpen' = FALSE
            /\ exitCode' = exitCode
       ELSE /\ cleanupPc' = "done"
            /\ socketOpen' = socketOpen
            /\ exitCode' = 1

\* --------------------------------------------------------------------- main
\* main(): register the client's event handlers, then await
\* redisClient.connect(); the transport is attached only after it resolves.
MainStart_AttachFirst ==
    /\ Running
    /\ mainPc = "start"
    /\ mainPc' = "serving"
    /\ conn' = "Connecting"
    /\ phase' = "attempting"
    /\ socketOpen' = TRUE
    /\ attempts' = 1
    /\ UNCHANGED << exitCode, cause, cleanupPc, retries, failures, stratLog,
                    everConnected, inv, store, listed, listedAt >>

MainStart ==
    /\ Running
    /\ mainPc = "start"
    /\ mainPc' = "awaitConnect"
    /\ conn' = "Connecting"
    /\ phase' = "attempting"
    /\ socketOpen' = TRUE
    /\ attempts' = 1
    /\ UNCHANGED << exitCode, cause, cleanupPc, retries, failures, stratLog,
                    everConnected, inv, store, listed, listedAt >>

\* The socket becomes ready: the offline queue is written to the socket, and
\* during startup connect() resolves and main() attaches the transport.
ConnectSucceed ==
    /\ Running
    /\ socketOpen
    /\ conn = "Connecting"
    /\ phase = "attempting"
    /\ conn' = "Connected"
    /\ phase' = "idle"
    /\ retries' = 0
    /\ everConnected' = TRUE
    /\ mainPc' = IF mainPc = "awaitConnect" THEN "serving" ELSE mainPc
    /\ inv' = [i \in Slots |->
                 IF inv[i].pc = "queued"
                 THEN [inv[i] EXCEPT !.pc = "awaiting", !.sent = @ + 1]
                 ELSE inv[i]]
    /\ UNCHANGED << exitCode, cause, cleanupPc, socketOpen, attempts, failures, stratLog,
                    store, listed, listedAt >>

\* A connection attempt fails: the client consults reconnectStrategy(retries).
\* A delay schedules the next attempt.  An Error closes the client: queued
\* commands are rejected; during startup connect() rejects, main()'s catch
\* calls cleanup(), whose quit() throws on the closed client, and the process
\* exits with status 1.  After startup the 'error' handler only logs.
ConnectFail ==
    /\ Running
    /\ socketOpen
    /\ conn = "Connecting"
    /\ phase = "attempting"
    /\ failures' = failures + 1
    /\ stratLog' = Append(stratLog, [i |-> retries, d |-> reconnectStrategy(retries)])
    /\ IF reconnectStrategy(retries) = ReconnectError
       THEN /\ conn' = "ReconnectExhausted"
            /\ phase' = "idle"
            /\ socketOpen' = FALSE
            /\ retries' = retries
            /\ inv' = [i \in Slots |->
                         IF inv[i].pc = "queued"
                         THEN Throw(inv[i], "ClientClosedError")
                         ELSE inv[i]]
            /\ IF mainPc = "awaitConnect"
               THEN /\ mainPc' = "cleanup"
                    /\ cause' = "startup"
                    /\ cleanupPc' = "done"
                    /\ exitCode' = 1
               ELSE UNCHANGED << mainPc, cause, cleanupPc, exitCode >>
       ELSE /\ conn' = conn
            /\ phase' = "waiting"
            /\ socketOpen' = socketOpen
            /\ retries' = retries + 1
            /\ UNCHANGED << inv, mainPc, cause, cleanupPc, exitCode >>
    /\ UNCHANGED << attempts, everConnected, store, listed, listedAt >>

\* The delay the strategy returned has elapsed: the next connection attempt.
RetryTimer ==
    /\ Running
    /\ socketOpen
    /\ conn = "Connecting"
    /\ phase = "waiting"
    /\ phase' = "attempting"
    /\ attempts' = attempts + 1
    /\ UNCHANGED << procVars, conn, socketOpen, retries, failures, stratLog,
                    everConnected, inv, store, listed, listedAt >>

\* The established connection drops: commands awaiting a reply are rejected
\* and the client starts reconnecting, counting retries from 0.
ConnectionDrop ==
    /\ Running
    /\ socketOpen
    /\ conn = "Connected"
    /\ conn' = "Connecting"
    /\ phase' = "attempting"
    /\ retries' = 0
    /\ attempts' = 1
    /\ failures' = 0
    /\ stratLog' = << >>
    /\ inv' = [i \in Slots |->
                 IF inv[i].pc = "awaiting"
                 THEN Throw(inv[i], "SocketClosed")
                 ELSE inv[i]]
    /\ UNCHANGED << procVars, socketOpen, everConnected, store, listed, listedAt >>

\* process.on('SIGINT' | 'SIGTERM', cleanup)
Signal ==
    /\ Running
    /\ mainPc # "start"
    /\ Cleanup("signal")
    /\ UNCHANGED << mainPc, conn, phase, retries, attempts, failures, stratLog,
                    everConnected, inv, store, listed, listedAt >>

\* redisClient.quit() settles (resolved or rejected, the catch swallows the
\* rejection): cleanup() calls process.exit(1).
QuitSettle ==
    /\ Running
    /\ cleanupPc = "quitting"
    /\ cleanupPc' = "done"
    /\ conn' = "Disconnected"
    /\ phase' = "idle"
    /\ exitCode' = 1
    /\ UNCHANGED << mainPc, cause, socketOpen, retries, attempts, failures,
                    stratLog, everConnected, inv, store, listed, listedAt >>

Next ==
    \/ MainStart
    \/ ConnectSucceed
    \/ ConnectFail
    \/ RetryTimer
    \/ ConnectionDrop
    \/ Signal
    \/ QuitSettle
    \/ \E i \in Slots, r \in ReqIds : CallTool(i, r)
    \/ \E i \in Slots, ok \in BOOLEAN : StoreReply(i, ok)
    \/ \E i \in Slots : Respond(i)

Spec == Init /\ [][Next]_vars

\* The program while its connection to the store, once established, stays
\* up: invocations of every kind are served against the store's contents.
ServeSlots == 1 .. MaxServe

ServeNext ==
    \/ MainStart
    \/ ConnectSucceed
    \/ \E i \in ServeSlots, r \in ServeReqIds : CallTool(i, r)
    \/ \E i \in ServeSlots, ok \in BOOLEAN : StoreReply(i, ok)
    \/ \E i \in ServeSlots : Respond(i)
    \/ \E k \in Keys : ExpireKey(k)
    \/ ListTools

ServeSpec == Init /\ [][ServeNext]_vars

\* The program serving one invocation after the other, of every tool, while
\* its connection to the store stays up.
ToolNext ==
    \/ MainStart
    \/ ConnectSucceed
    \/ \E r \in AllReqIds : CallTool(1, r)
    \/ \E ok \in BOOLEAN : StoreReply(1, ok)
    \/ Respond(1)
    \/ \E k \in Keys : ExpireKey(k)

ToolSpec == Init /\ [][ToolNext]_vars

\* The program with its whole connection lifecycle, serving one invocation
\* after the other and answering discovery requests.
ListNext ==
    \/ MainStart
    \/ ConnectSucceed
    \/ ConnectFail
    \/ RetryTimer
    \/ ConnectionDrop
    \/ Signal
    \/ QuitSettle
    \/ \E r \in ReqIds : CallTool(1, r)
    \/ \E ok \in BOOLEAN : StoreReply(1, ok)
    \/ Respond(1)
    \/ ListTools

ListSpec == Init /\ [][ListNext]_vars

\* What the event loop guarantees: a started main() runs, a pending timer
\* fires, a connection attempt ends one way or the other, quit() settles, an
\* issued command is answered while the connection lasts, a finished
\* response is written.  Signals, connection drops and incoming requests are
\* the environment's and happen or not.
FairSpec ==
    /\ Spec
    /\ WF_vars(MainStart)
    /\ WF_vars(RetryTimer)
    /\ WF_vars(ConnectSucceed \/ ConnectFail)
    /\ WF_vars(QuitSettle)
    /\ \A i \in Slots : WF_vars(\E ok \in BOOLEAN : StoreReply(i, ok))
    /\ \A i \in Slots : WF_vars(Respond(i))

\* -------------------------------------------------------------------- claims
Pending(i) == inv[i].pc \in {"queued", "awaiting"}
Invalid(i) ==
    /\ inv[i].pc # "free"
    /\ IsHandled(AllRequests[inv[i].req].name)
    /\ ~ParseReq(AllRequests[inv[i].req])
Unknown(i) == inv[i].pc # "free" /\ ~IsHandled(AllRequests[inv[i].req].name)
Valid(i) == inv[i].pc # "free" /\ ~Invalid(i) /\ ~Unknown(i)

\* The handler of slot i is entered in this step.
Arrives(i) == inv[i].pc = "free" /\ inv'[i].pc # "free"

ExpectedDelays == << 1000, 2000, 4000, 8000, 16000 >>

\* C1: every delay the reconnect strategy returns for retry index i is
\* min(2^i * 1000, 30000) ms and at most 30000 ms; within a run of failures
\* the strategy is called with indices 0, 1, 2, ... and the first five
\* delays are 1000, 2000, 4000, 8000, 16000 in that order.
C1_ReconnectDelays ==
    /\ \A k \in DOMAIN stratLog :
          /\ stratLog[k].i = k - 1
          /\ stratLog[k].d # ReconnectError =>
                /\ stratLog[k].d = Min((2 ^ (k - 1)) * 1000, 30000)
                /\ stratLog[k].d <= 30000
          /\ k <= 5 => stratLog[k].d = ExpectedDelays[k]
    /\ \A i \in 0 .. MaxRetryIndex :
          reconnectStrategy(i) # ReconnectError =>
             /\ reconnectStrategy(i) = Min((2 ^ i) * 1000, 30000)
             /\ reconnectStrategy(i) <= 30000

C1_Witness == Len(stratLog) >= 5 /\ stratLog[5].d = 16000

\* C2 as stated: within one run of consecutive connection failures, after 5
\* failed attempts the state is ReconnectExhausted and no 6th attempt is made.
C2_ExhaustedAfterFive ==
    /\ failures >= 5 => conn = "ReconnectExhausted"
    /\ attempts <= 5

\* C2 amended: within one run of consecutive connection failures the client
\* makes the first attempt and at most 5 retries; the state becomes
\* ReconnectExhausted exactly when the 6th attempt has failed, and no 7th
\* attempt is made.
C2_ExhaustedAfterSix ==
    /\ attempts <= 6
    /\ failures <= attempts
    /\ conn = "ReconnectExhausted" => failures = 6 /\ attempts = 6 /\ phase = "idle"
    /\ failures = 6 => conn = "ReconnectExhausted"

C2_Witness == conn = "ReconnectExhausted" /\ attempts = 6 /\ failures = 6

\* C3: once the retry budget is spent, during startup or after an established
\* connection dropped, the process eventually exits with a non-zero status.
C3_ExhaustionTerminates ==
    (conn = "ReconnectExhausted") ~> (exitCode # NoExit /\ exitCode # 0)

\* C4: a shutdown triggered by a termination signal and not by reconnect
\* exhaustion ends with exit status zero.
C4_SignalExitsZero ==
    (exitCode # NoExit /\ cause = "signal" /\ conn # "ReconnectExhausted")
        => exitCode = 0

\* C5: an invocation that arrives while the connection is Connecting fails
\* fast: its store command is neither sent nor held in a queue.
C5_ConnectingFailsFast ==
    \A i \in Slots :
        (Valid(i) /\ inv[i].at = "Connecting") =>
            /\ inv[i].pc = "done"
            /\ inv[i].errors = 1
            /\ inv[i].sent = 0

\* C6: once ReconnectExhausted is reached no invocation is pending (a queued
\* command has failed, none waits), and an invocation that arrives afterwards
\* ends at once with an error and without a command sent to the store.
C6_NothingSentAfterExhaustion ==
    /\ [](\A i \in Slots :
            /\ conn = "ReconnectExhausted" => ~Pending(i)
            /\ inv[i].at = "ReconnectExhausted" =>
                  /\ inv[i].pc = "done"
                  /\ inv[i].errors = 1
                  /\ inv[i].results = 0
                  /\ inv[i].sent = 0)
    /\ [][\A i \in Slots :
            (conn = "ReconnectExhausted" \/ conn' = "ReconnectExhausted") =>
               /\ inv'[i].sent <= inv[i].sent
               /\ Pending(i) => (inv'[i].pc = "done" /\ inv'[i].errors = 1)]_vars

C6_Witness ==
    /\ conn = "ReconnectExhausted"
    /\ \E i \in Slots : Valid(i) /\ inv[i].at = "ReconnectExhausted" /\ inv[i].pc = "done"
    /\ \E i \in Slots : Valid(i) /\ inv[i].at = "Connecting" /\ inv[i].err = "ClientClosedError"

\* C7: no invocation is handled, and the transport is not attached, before
\* the store connection has been Connected; if the first connection never
\* succeeds no invocation is ever handled.
C7_ConnectBeforeServing ==
    /\ mainPc = "serving" => everConnected
    /\ \A i \in Slots : inv[i].pc # "free" => everConnected
    /\ ~everConnected => mainPc \in {"start", "awaitConnect", "cleanup"}

C7_Witness ==
    /\ mainPc = "serving"
    /\ everConnected
    /\ \E i \in Slots : inv[i].pc = "done" /\ inv[i].results = 1

\* C8: an invocation has at most one outcome at any time, none before its
\* handler has ended, and exactly one (a ToolResult or a propagated error,
\* not both) once it has ended.
C8_ExactlyOneOutcome ==
    \A i \in Slots :
        /\ inv[i].results + inv[i].errors <= 1
        /\ inv[i].pc = "done" <=> inv[i].results + inv[i].errors = 1
        /\ inv[i].errors = 1 <=> inv[i].err # "none"

C8_Witness ==
    /\ \E i \in Slots : inv[i].pc = "done" /\ inv[i].results = 1 /\ inv[i].errors = 0
    /\ \E i \in Slots : inv[i].pc = "done" /\ inv[i].results = 0 /\ inv[i].errors = 1

\* C9: an invocation whose arguments fail validation ends with
\* InvalidArguments and no store command issued for it, and handling it
\* leaves the connection state and the reconnection counters unchanged.
C9_InvalidArgumentsNeverReachStore ==
    /\ [](\A i \in Slots :
            Invalid(i) =>
               /\ inv[i].pc = "done"
               /\ inv[i].err = "InvalidArguments"
               /\ inv[i].errors = 1
               /\ inv[i].results = 0
               /\ inv[i].sent = 0)
    /\ [][\A i \in Slots :
            (Arrives(i) /\ Invalid(i)') => UNCHANGED connVars]_vars

C9_Witness ==
    /\ conn = "Connected"
    /\ \E i \in Slots : Invalid(i) /\ inv[i].at = "Connected" /\ inv[i].pc = "done"

\* C10: an invocation naming a tool the handler does not know ends with an
\* UnknownTool error and no store command issued for it, and handling it
\* leaves the connection state unchanged.
C10_UnknownToolNeverReachesStore ==
    /\ [](\A i \in Slots :
            Unknown(i) =>
               /\ inv[i].pc = "done"
               /\ inv[i].err = "UnknownTool"
               /\ inv[i].errors = 1
               /\ inv[i].results = 0
               /\ inv[i].sent = 0)
    /\ [][\A i \in Slots :
            (Arrives(i) /\ Unknown(i)') => UNCHANGED connVars]_vars

C10_Witness ==
    /\ conn = "Connected"
    /\ \E i \in Slots : Unknown(i) /\ inv[i].at = "Connected" /\ inv[i].pc = "done"

\* ---------------------------------------------------------------------------
\* Argument validation (C11)
\* ---------------------------------------------------------------------------

\* The request of slot i.
ReqOf(i) == AllRequests[inv[i].req]

\* A field the tool's schema requires is not among the request's arguments.
RequiredAbsent(req) ==
    \E k \in DOMAIN SchemaOf(req.name) :
        SchemaOf(req.name)[k].req /\ SchemaOf(req.name)[k].f \notin DOMAIN req.args

\* A field the tool's schema declares is given with a value of another type.
TypeFails(req) ==
    \E k \in DOMAIN SchemaOf(req.name) :
        /\ SchemaOf(req.name)[k].f \in DOMAIN req.args
        /\ ~TypeOk(req.args[SchemaOf(req.name)[k].f], SchemaOf(req.name)[k].ty)

\* The edge values: an empty-string key, a zero score, negative range
\* indices, an extra field the schema does not declare.
EdgeRequests == {5, 9, 15, 21}

\* C11: for every handled tool an invocation ends with InvalidArguments if and
\* only if a required field is absent or a declared field's value fails its
\* type check; the edge values (empty-string key, zero score, negative range
\* index, unknown extra field) are never rejected as invalid.
C11_InvalidIffSchemaViolated ==
    \A i \in Slots :
        (inv[i].pc = "done" /\ IsHandled(ReqOf(i).name)) =>
            /\ inv[i].err = "InvalidArguments"
                  <=> (RequiredAbsent(ReqOf(i)) \/ TypeFails(ReqOf(i)))
            /\ inv[i].req \in EdgeRequests => inv[i].err # "InvalidArguments"

\* ---------------------------------------------------------------------------
\* Discovery listing against validation (C12)
\* ---------------------------------------------------------------------------

\* The positions of the listing's entries named `name`.
EntriesOf(name) == { k \in DOMAIN listed : listed[k].name = name }

\* What an argument schema declares: field names, required fields, and the
\* type of each field.
SchemaFields(sch) == { sch[k].f : k \in DOMAIN sch }
SchemaRequired(sch) == { sch[k].f : k \in { j \in DOMAIN sch : sch[j].req } }
SchemaTypes(sch) == { << sch[k].f, sch[k].ty >> : k \in DOMAIN sch }

\* C12: in a discovery response every tool name the dispatcher handles has
\* exactly one entry, and that entry's schema has the field names, the
\* types and the required set of the schema the dispatcher validates the
\* tool's arguments with.
C12_ListingMatchesValidation ==
    listed # << >> =>
        \A h \in DOMAIN HandledTools :
            /\ Cardinality(EntriesOf(HandledTools[h])) = 1
            /\ \A k \in EntriesOf(HandledTools[h]) :
                  /\ SchemaFields(listed[k].properties)
                        = SchemaFields(SchemaOf(HandledTools[h]))
                  /\ listed[k].required = SchemaRequired(SchemaOf(HandledTools[h]))
                  /\ SchemaTypes(listed[k].properties)
                        = SchemaTypes(SchemaOf(HandledTools[h]))

\* ---------------------------------------------------------------------------
\* Errors reported by the store (C13)
\* ---------------------------------------------------------------------------

\* The errors the store may answer the command of slot i with: one of its
\* own making, or the one executing the command on its contents gives.
StoreErrorsFor(i) ==
    {"UpstreamError"}
        \cup (IF inv[i].cmd.op # "NONE" /\ Exec(store, inv[i].cmd).reply.t = "err"
              THEN {Exec(store, inv[i].cmd).reply.v} ELSE {})

\* The awaited command of slot i is answered with an error in this step,
\* the connection being up before and after.
StoreErrorStep(i) ==
    /\ inv[i].pc = "awaiting" /\ inv'[i].pc = "done" /\ inv'[i].errors = 1
    /\ conn = "Connected" /\ conn' = "Connected"

\* C13: when the store answers a command with an error on a live connection
\* the invocation ends with exactly that error (not wrapped, not replaced)
\* and with no result, the command has been sent once and no invocation ever
\* sends its command a second time, and the connection state is left as it
\* was: Connected.
C13_StoreErrorPassedThrough ==
    /\ [](\A i \in Slots : inv[i].sent <= 1)
    /\ [][\A i \in Slots :
            StoreErrorStep(i) =>
               /\ inv'[i].err \in StoreErrorsFor(i)
               /\ inv'[i].results = 0
               /\ inv'[i].sent = 1
               /\ store' = store
               /\ UNCHANGED connVars]_vars

\* A get on a key holding a list has ended with the store's WRONGTYPE error
\* while the connection is Connected.
C13_Witness ==
    /\ conn = "Connected"
    /\ \E i \in Slots :
          /\ inv[i].pc = "done"
          /\ inv[i].req = 22
          /\ inv[i].err = WrongType(store).reply.v
          /\ inv[i].sent = 1

\* ---------------------------------------------------------------------------
\* Concurrency of invocations (C14)
\* ---------------------------------------------------------------------------

\* C14: invocations are processed one at a time: a later invocation's store
\* command is not issued before the earlier invocation has produced its
\* response, so no two invocations ever have their commands at the store
\* together, each still waiting for its reply.
C14_OneAtATime ==
    \A i, j \in Slots :
        i # j => ~(inv[i].pc = "awaiting" /\ inv[j].pc = "awaiting")

\* ---------------------------------------------------------------------------
\* Dual-shape fields (C15, C16)
\* ---------------------------------------------------------------------------

\* The tools with a field that takes a string or an array of strings, and
\* that field.
DualShapeTools == {"delete", "lpush", "rpush", "zrem"}
DualField(name) ==
    CASE name = "delete" -> "key"
      [] name \in {"lpush", "rpush"} -> "value"
      [] name = "zrem" -> "member"

\* The items of the command of slot i: all its arguments for DEL, those
\* after the key for LPUSH, RPUSH and ZREM.
Forwarded(i) ==
    IF ReqOf(i).name = "delete" THEN inv[i].cmd.args ELSE Tail(inv[i].cmd.args)

\* C15: the command sent for delete, lpush, rpush or zrem carries a scalar
\* input as the one-element sequence of that value and an array input with
\* the same elements in the same order, duplicates included.
C15_DualShapeForwarding ==
    \A i \in Slots :
        (inv[i].sent = 1 /\ ReqOf(i).name \in DualShapeTools) =>
            /\ ReqOf(i).args[DualField(ReqOf(i).name)].t = "str" =>
                  Forwarded(i) = << ReqOf(i).args[DualField(ReqOf(i).name)].v >>
            /\ ReqOf(i).args[DualField(ReqOf(i).name)].t = "arr" =>
                  Forwarded(i) = ReqOf(i).args[DualField(ReqOf(i).name)].v

\* lpush of the array ["x", "y"] has been sent with its two items in order.
C15_Witness ==
    \E i \in Slots :
        /\ inv[i].req = 11
        /\ inv[i].sent = 1
        /\ inv[i].cmd = Cmd("LPUSH", << "L", "x", "y" >>)

\* The array given for the dual-shape field of slot i's request, << >> when
\* the field is given as a scalar or the tool has no such field.
ArrayInput(i) ==
    IF /\ ReqOf(i).name \in DualShapeTools
       /\ ReqOf(i).hasArgs
       /\ DualField(ReqOf(i).name) \in DOMAIN ReqOf(i).args
       /\ ReqOf(i).args[DualField(ReqOf(i).name)].t = "arr"
    THEN ReqOf(i).args[DualField(ReqOf(i).name)].v
    ELSE << >>

\* The store's reply to slot i's command arrives in this step and the
\* handler returns its result.
ResultStep(i) ==
    inv[i].pc = "awaiting" /\ inv'[i].pc = "done" /\ inv'[i].results = 1

\* C16 as stated: a success response to an array of n items reports n (the
\* count is the second piece of each of these responses).
C16_ReportsInputCount ==
    \A i \in Slots :
        (inv[i].pc = "done" /\ inv[i].results = 1 /\ ArrayInput(i) # << >>) =>
            inv[i].text[2] = ToString(Len(ArrayInput(i)))

\* C16, amended: for an array of n items, delete reports n; lpush and rpush
\* report the list's length after the push (its length before plus n); zrem
\* reports how many of the members given were in the sorted set.
C16_ReportedCardinality ==
    [][\A i \in Slots :
          (ResultStep(i) /\ ArrayInput(i) # << >>) =>
             inv'[i].text[2] =
                ToString(CASE ReqOf(i).name = "delete" -> Len(ArrayInput(i))
                           [] ReqOf(i).name \in {"lpush", "rpush"} ->
                                 Len(ListOf(store, inv[i].cmd.args[1])) + Len(ArrayInput(i))
                           [] ReqOf(i).name = "zrem" ->
                                 Cardinality({e \in ZSetOf(store, inv[i].cmd.args[1]) :
                                                 e[1] \in Range(ArrayInput(i))}))]_vars

\* lpush of ["x", "y"] onto a list of one item has answered "3", not "2".
C16_Witness ==
    \E i \in Slots :
        /\ inv[i].req = 11
        /\ inv[i].pc = "done"
        /\ inv[i].text = << "Added to the head of the list, new length: ", "3" >>

\* ---------------------------------------------------------------------------
\* get, set, expire, zscore (C17 - C20)
\* ---------------------------------------------------------------------------

\* Slot i's request is for tool `name`, its command was sent while
\* Connected, and the store's reply to it arrives in this step (as a result
\* or as an error).
ReplyStep(i, name) ==
    /\ inv[i].pc = "awaiting"
    /\ ReqOf(i).name = name
    /\ inv'[i].pc = "done"
    /\ conn' = "Connected"

\* The key of slot i's command.
KeyOf(i) == inv[i].cmd.args[1]

\* C17: when the store executes a get for a key it does not hold, the
\* invocation answers the text "Key not found: <key>" as a result, not an
\* error; and a get changes nothing in the store, so the same get issued
\* again with no write in between gets the same answer.
C17_GetAbsentKey ==
    [][\A i \in Slots :
          ReplyStep(i, "get") =>
             /\ store' = store
             /\ (store.kv[KeyOf(i)].t = "nil" /\ inv'[i].err # "UpstreamError") =>
                   /\ inv'[i].results = 1
                   /\ inv'[i].errors = 0
                   /\ inv'[i].text = << "Key not found: ", ReqOf(i).args["key"].v >>]_vars

\* get of the absent key "a" has answered "Key not found: a".
C17_Witness ==
    \E i \in Slots :
        /\ inv[i].req = 8
        /\ inv[i].pc = "done"
        /\ inv[i].results = 1
        /\ inv[i].text = << "Key not found: ", "a" >>
        /\ store.kv["a"].t = "nil"

C19_ExpireMissingKey ==
    [][\A i \in Slots :
          (ReplyStep(i, "expire") /\ inv'[i].err # "UpstreamError") =>
             /\ inv'[i].results = 1
             /\ inv'[i].errors = 0
             /\ inv'[i].text =
                   IF store.kv[ReqOf(i).args["key"].v].t = "nil"
                   THEN << "Failed to set expiration: key ", ReqOf(i).args["key"].v,
                           " does not exist" >>
                   ELSE << "Successfully set expiration of ",
                           ToString(ReqOf(i).args["seconds"].v),
                           " seconds for key: ", ReqOf(i).args["key"].v >>]_vars

\* expire of the absent key "a" has answered with the failure text, as a result.
C19_Witness ==
    \E i \in Slots :
        /\ inv[i].req = 19
        /\ inv[i].pc = "done"
        /\ inv[i].results = 1
        /\ inv[i].text = << "Failed to set expiration: key ", "a", " does not exist" >>
        /\ store.kv["a"].t = "nil"

\* C20: a zscore the store executes for a member that zadd gave the score 5
\* answers a text reporting the score as "5": zadd {key "Z", score 5,
\* member "m"} then zscore {key "Z", member "m"} answers "Score: 5".
C20_ZAddThenZScore ==
    /\ [][\A i \in Slots :
            (ReplyStep(i, "zadd") /\ inv'[i].err # "UpstreamError"
                /\ ReqOf(i).args["score"] = Num(5)) =>
               << ReqOf(i).args["member"].v, "5" >>
                  \in ZSetOf(store', ReqOf(i).args["key"].v)]_vars
    /\ [][\A i \in Slots :
            (ReplyStep(i, "zscore") /\ inv'[i].err # "UpstreamError"
                /\ << ReqOf(i).args["member"].v, "5" >>
                      \in ZSetOf(store, ReqOf(i).args["key"].v)) =>
               /\ inv'[i].results = 1
               /\ inv'[i].text = << "Score: ", "5" >>]_vars

\* After zadd Z 5 m, zscore Z m has answered "Score: 5".
C20_Witness ==
    \E i \in Slots :
        /\ inv[i].req = 16
        /\ inv[i].pc = "done"
        /\ inv[i].text = << "Score: ", "5" >>
        /\ ZSetOf(store, "Z") = {<< "m", "5" >>}

\* ---------------------------------------------------------------------------
\* Lists (C21)
\* ---------------------------------------------------------------------------

\* C21: an lpush of ["x", "y"] the store executes on an empty list L leaves
\* L holding y, x (each item inserted at the head, in input order) and
\* answers the new length 2; an lrange of L from 0 to -1 the store executes
\* answers the elements of L in list order, one per line: "y\nx" for that
\* list.
C21_LPushThenLRange ==
    /\ [][\A i \in Slots :
            (ReplyStep(i, "lpush") /\ inv[i].req = 11 /\ inv'[i].err # "UpstreamError"
                /\ store.kv["L"].t = "nil") =>
               /\ store'.kv["L"] = ListV(<< "y", "x" >>)
               /\ inv'[i].results = 1
               /\ inv'[i].text[2] = "2"]_vars
    /\ [][\A i \in Slots :
            (ReplyStep(i, "lrange") /\ inv[i].req = 21 /\ inv'[i].err # "UpstreamError"
                /\ store.kv["L"] = ListV(<< "y", "x" >>)) =>
               /\ inv'[i].results = 1
               /\ inv'[i].text = << "y", "\n", "x" >>]_vars

\* After lpush L ["x", "y"] onto the empty list, lrange L 0 -1 has answered
\* "y\nx".
C21_Witness ==
    \E i \in Slots :
        /\ inv[i].req = 21
        /\ inv[i].pc = "done"
        /\ inv[i].text = << "y", "\n", "x" >>
        /\ store.kv["L"] = ListV(<< "y", "x" >>)

\* ---------------------------------------------------------------------------
\* Range and listing tools (C22)
\* ---------------------------------------------------------------------------

RangeTools == {"list", "lrange", "zrange", "hgetall", "pubsub_channels"}

\* The first piece of the text each range or listing tool answers when the
\* store's reply has no item.
NoResultsLead(name) ==
    CASE name = "list" -> "No keys found matching pattern"
      [] name = "lrange" -> "No elements in the range or the list does not exist: "
      [] name = "zrange" -> "No members in the range or the sorted set does not exist: "
      [] name = "hgetall" -> "Hash key not found or empty: "
      [] name = "pubsub_channels" -> "No active channels found"

\* The store executes the command of slot i, a range or listing tool's, in
\* this step and replies with zero items.
EmptyReplyStep(i) ==
    /\ inv[i].pc = "awaiting"
    /\ inv'[i].pc = "done"
    /\ conn' = "Connected"
    /\ ReqOf(i).name \in RangeTools
    /\ inv'[i].err # "UpstreamError"
    /\ Exec(store, inv[i].cmd).reply.t \in {"arr", "map", "pairs"}
    /\ Len(Exec(store, inv[i].cmd).reply.v) = 0

\* C22: when the store's reply to list, lrange, zrange (with or without
\* scores), hgetall or pubsub_channels has zero items, the invocation
\* answers a result, not an error, whose text is the tool's explicit
\* "no results" message and so is not empty.
C22_EmptyReplyHasMessage ==
    [][\A i \in Slots :
          EmptyReplyStep(i) =>
             /\ inv'[i].results = 1
             /\ inv'[i].errors = 0
             /\ inv'[i].text # << >>
             /\ inv'[i].text[1] = NoResultsLead(ReqOf(i).name)
             /\ inv'[i].text[1] # ""]_vars

\* zrange with scores on the absent sorted set Z has answered its
\* "no members" message.
C22_Witness ==
    \E i \in Slots :
        /\ inv[i].req = 32
        /\ inv[i].pc = "done"
        /\ inv[i].results = 1
        /\ inv[i].text = << "No members in the range or the sorted set does not exist: ", "Z" >>

\* ---------------------------------------------------------------------------
\* Shape of a result (C23)
\* ---------------------------------------------------------------------------

\* C23: every result an invocation returns, whatever the tool and whatever
\* the store replied (an integer, null, an array, a map, a string), has
\* exactly one content item, of type "text", and its text is made of
\* strings only: a number of the reply appears as its decimal text, null
\* and empty replies as a message, never as the reply value itself.
C23_OneTextItem ==
    \A i \in Slots :
        inv[i].results = 1 =>
            /\ Len(inv[i].content) = 1
            /\ inv[i].content[1].type = "text"
            /\ inv[i].content[1].text = inv[i].text
            /\ inv[i].text # << >>
            /\ \A k \in DOMAIN inv[i].text : inv[i].text[k] \in STRING

\* hgetall of a hash with one field has answered the map as the one text
\* "f: v".
C23_Witness ==
    \E i \in Slots :
        /\ inv[i].req = 27
        /\ inv[i].results = 1
        /\ inv[i].content = << [type |-> "text", text |-> << "f", ": ", "v" >>] >>

\* ---------------------------------------------------------------------------
\* Discovery has no side effects (C24)
\* ---------------------------------------------------------------------------

\* C24: answering a discovery request sends nothing to the store and
\* changes nothing of the program's state (connection, process, invocations
\* in flight, store contents); the answer is the same tools array, in the
\* same order, on every call and in every connection state the server
\* answers requests in.
C24_DiscoveryHasNoSideEffects ==
    /\ [](listed \in {<< >>, ListToolsHandler})
    /\ [][(listed' # listed \/ listedAt' # listedAt) =>
             /\ listed' = ListToolsHandler
             /\ listedAt' = conn
             /\ UNCHANGED << connVars, procVars, inv, store >>]_vars

\* A discovery request has been answered with the full listing after the
\* retry budget was spent.
C24_Witness == listedAt = "ReconnectExhausted" /\ listed = ListToolsHandler

\* ---------------------------------------------------------------------------
\* list's default pattern (C25)
\* ---------------------------------------------------------------------------

\* The request gives the field f.
Gives(req, f) == req.hasArgs /\ f \in DOMAIN req.args

\* C25: a list invocation handled while Connected has sent exactly one
\* key-listing command: with pattern "*" when the request gives no pattern
\* field, with exactly the given pattern when it gives one.
C25_ListDefaultPattern ==
    \A i \in Slots :
        (inv[i].pc # "free" /\ ReqOf(i).name = "list" /\ inv[i].at = "Connected") =>
            /\ inv[i].sent = 1
            /\ inv[i].cmd =
                  Cmd("KEYS", << IF Gives(ReqOf(i), "pattern")
                                 THEN ReqOf(i).args["pattern"].v ELSE "*" >>)

\* ---------------------------------------------------------------------------
\* The InvalidArguments message (C26)
\* ---------------------------------------------------------------------------

\* The first field, in the schema's order, that the request's arguments
\* fail on.
FirstOffending(req) ==
    SchemaOf(req.name)[CHOOSE k \in DOMAIN SchemaOf(req.name) :
                          /\ ~FieldOk(req.args, SchemaOf(req.name)[k])
                          /\ \A j \in 1 .. k - 1 : FieldOk(req.args, SchemaOf(req.name)[j])]

MutationTools ==
    {"set", "delete", "hset", "incr", "expire", "lpush", "rpush", "zadd", "zrem"}

\* The keys the mutation of slot i is about.
AffectedKeys(i) ==
    IF ReqOf(i).name = "delete"
    THEN Range(Items(ReqOf(i).args["key"]))
    ELSE {ReqOf(i).args["key"].v}

\* Slot i holds the result of a mutation.
Mutated(i) ==
    inv[i].pc = "done" /\ inv[i].results = 1 /\ ReqOf(i).name \in MutationTools

\* C27 as stated: the text of every successful mutation names the key (for
\* delete, the keys) it affected.
C27_ConfirmationNamesKey ==
    \A i \in Slots : Mutated(i) => AffectedKeys(i) \subseteq Range(inv[i].text)

\* C27, amended: set, hset, incr, expire, zrem and the delete of a single
\* key answer a text that names the key; the delete of an array of keys
\* answers only how many keys were given; lpush and rpush answer only the
\* list's new length and zadd only the number of members added: two pieces,
\* a label and a number, the key not among them.
C27_ConfirmationTexts ==
    \A i \in Slots :
        Mutated(i) =>
            IF ReqOf(i).name \in {"lpush", "rpush", "zadd"}
            THEN /\ Len(inv[i].text) = 2
                 /\ IsNumeral(inv[i].text[2])
                 /\ inv[i].text[1] \notin AffectedKeys(i)
            ELSE IF ReqOf(i).name = "delete" /\ ReqOf(i).args["key"].t = "arr"
            THEN inv[i].text = << "Successfully deleted ",
                                  ToString(Len(ReqOf(i).args["key"].v)), " keys" >>
            ELSE AffectedKeys(i) \subseteq Range(inv[i].text)

\* lpush of "x" onto the empty list L has answered its new length, without
\* naming L.
C27_Witness ==
    \E i \in Slots :
        /\ inv[i].req = 12
        /\ inv[i].results = 1
        /\ inv[i].text = << "Added to the head of the list, new length: ", "1" >>

\* ---------------------------------------------------------------------------
\* set with and without expiry (C28)
\* ---------------------------------------------------------------------------

\* C28: a valid set invocation handled while Connected has sent exactly one
\* command: the set-with-expiry command carrying the key, expireSeconds and
\* the value when expireSeconds is given and is not 0, the plain set command
\* with the key and the value when expireSeconds is absent or 0.
C28_SetIssuesOneWrite ==
    \A i \in Slots :
        (/\ inv[i].pc # "free"
         /\ ReqOf(i).name = "set"
         /\ ParseReq(ReqOf(i))
         /\ inv[i].at = "Connected") =>
            /\ inv[i].sent = 1
            /\ inv[i].cmd =
                  IF Gives(ReqOf(i), "expireSeconds") /\ ReqOf(i).args["expireSeconds"].v # 0
                  THEN Cmd("SETEX", << ReqOf(i).args["key"].v,
                                       ToString(ReqOf(i).args["expireSeconds"].v),
                                       ReqOf(i).args["value"].v >>)
                  ELSE Cmd("SET", << ReqOf(i).args["key"].v, ReqOf(i).args["value"].v >>)

\* set with expireSeconds 0 has sent the plain set command and set with
\* expireSeconds 1 the set-with-expiry command.
C28_Witness ==
    \E i \in Slots :
        /\ inv[i].req = 36
        /\ inv[i].sent = 1
        /\ inv[i].cmd = Cmd("SET", << "a", "1" >>)
        /\ inv[i].results = 1
        /\ "a" \notin store.ttl

\* ---------------------------------------------------------------------------
\* cleanup always ends the process (C29)
\* ---------------------------------------------------------------------------

EmptyArrayInput(i) ==
    /\ inv[i].pc # "free"
    /\ ReqOf(i).name \in DualShapeTools
    /\ ReqOf(i).hasArgs
    /\ DualField(ReqOf(i).name) \in DOMAIN ReqOf(i).args
    /\ ReqOf(i).args[DualField(ReqOf(i).name)] = Arr(<< >>)

\* C30: delete, lpush, rpush or zrem whose dual-shape field is [] passes the
\* schema and never ends as InvalidArguments; handled while Connected it has
\* sent exactly one command, whose forwarded items are none, and it ends
\* only with an answer that came from the store.
C30_EmptyArrayReachesStore ==
    \A i \in Slots :
        EmptyArrayInput(i) =>
            /\ ParseReq(ReqOf(i))
            /\ inv[i].err # "InvalidArguments"
            /\ inv[i].at = "Connected" =>
                  /\ inv[i].sent = 1
                  /\ inv[i].cmd.op # "NONE"
                  /\ Forwarded(i) = << >>
                  /\ inv[i].pc = "done" =>
                        inv[i].err \in StoreErrorsFor(i) \cup {"none"}

\* delete with key [] was sent as DEL with no key and ended with the store's
\* arity error.
C30_Witness ==
    \E i \in Slots :
        /\ inv[i].req = 38
        /\ inv[i].pc = "done"
        /\ inv[i].sent = 1
        /\ inv[i].cmd = Cmd("DEL", << >>)
        /\ inv[i].errors = 1
        /\ inv[i].err = "ERR wrong number of arguments for 'del' command"

====
